---- MODULE Spec2Model ----
(***************************************************************************)
(* A model of the multi-tenant notes service of src/main.py: the two       *)
(* in-memory stores, the JSON data file, and the six request handlers,     *)
(* each executed as one step.                                              *)
(*                                                                         *)
(* Representation.                                                         *)
(*   - a Python str used as a user id is a sequence of one-character       *)
(*     strings, so that str.strip() can be computed;                       *)
(*   - Optional[str] is <<>> (None) or <<s>> (the string s);               *)
(*   - a timestamp string is the sequence of characters isoformat()        *)
(*     produces, compared the way Python compares str;                     *)
(*   - the data file is absent, malformed, or a JSON document.             *)
(***************************************************************************)
EXTENDS Integers, Sequences, FiniteSets, TLC

VARIABLES
    user_notes,      \* main.py:88  Dict[str, List[Note]]
    user_passwords,  \* main.py:89  Dict[str, Dict[str, Optional[str]]]
    file,            \* the content of DATA_FILE (main.py:13)
    resp,            \* the last completed request and its response
    issued,          \* every identifier uuid4() has returned so far
    setLog,          \* every <<user, category, password>> a set_password answered 200 for
    loginLog,        \* every user id a login answered 200 for (as registered)
    saves,           \* how many times save_data() ran
    writeFailures,   \* how many times save_data's except branch ran
    threads,         \* the requests in progress in the threadpool: each worker's
                     \* handler, the line it is about to run, and its locals
    returned         \* the requests the threadpool has answered, in that order

vars ==
    <<user_notes, user_passwords, file, resp, issued, setLog, loginLog, saves,
      writeFailures, threads, returned>>

stores == <<user_notes, user_passwords>>

(***************************************************************************)
(* Bounds of the model.                                                    *)
(***************************************************************************)
MaxNotes == 2          \* how many notes are created in one run
MaxSaves == 4          \* how many requests that change the stores one run carries out
MaxWriteFailures == 1  \* how many writes of the data file fail in one run
MaxRequests == 3       \* how many requests the threadpool accepts in one run

(***************************************************************************)
(* Inputs.                                                                 *)
(***************************************************************************)
Whitespace == {" "}

UA == <<"a">>
UB == <<"b">>
UPadded == <<" ", "a", " ">>

\* bodies given to POST /login
LoginIds == {UA, UB, UPadded, <<" ">>, <<>>}

\* the {user_id} path parameter of the other routes
PathIds == {UA, UB}

TableCategories == {"Personal", "Diary", "Office", "Study", "Schedule"}

\* a list of settable categories that holds the whole table
SettableCategories_whole_table == TableCategories

SettableCategories == {"Personal", "Diary"}

\* the category field of a password request; "Other" is in no table
Categories == {"Personal", "Diary", "Office", "Other"}

Passwords == {"", "p", "q"}

NoteIds == 1..MaxNotes

\* bodies given to POST /notes/{user_id}
NoteCreates ==
    { [title |-> "T1", content |-> "C1", category |-> "Personal"],
      [title |-> "T2", content |-> "C2", category |-> "Work"] }

\* readings of the clock: <<second, microsecond>>
Clock == { <<0, 0>>, <<0, 1>> }

(***************************************************************************)
(* Python values.                                                          *)
(***************************************************************************)
None == <<>>

Some(s) == <<s>>

RECURSIVE lstrip(_)
lstrip(s) ==
    IF s # <<>> /\ Head(s) \in Whitespace THEN lstrip(Tail(s)) ELSE s

RECURSIVE rstrip(_)
rstrip(s) ==
    IF s # <<>> /\ s[Len(s)] \in Whitespace
    THEN rstrip(SubSeq(s, 1, Len(s) - 1))
    ELSE s

\* a strip that leaves the whitespace at the end
strip_left_only(s) == lstrip(s)

strip(s) == rstrip(lstrip(s))

\* the code point of a character of a timestamp
Ord(ch) == CASE ch = "." -> 46 [] ch = "0" -> 48 [] ch = "1" -> 49

Digit(n) == CASE n = 0 -> "0" [] n = 1 -> "1"

\* datetime.isoformat(): the microseconds are left out when they are zero
isoformat(t) ==
    IF t[2] = 0 THEN <<Digit(t[1])>> ELSE <<Digit(t[1]), ".", Digit(t[2])>>

\* a < b for two Python str: the first differing character decides, and a
\* proper prefix is smaller
RECURSIVE StrLess(_, _)
StrLess(a, b) ==
    IF b = <<>> THEN FALSE
    ELSE IF a = <<>> THEN TRUE
    ELSE IF Head(a) # Head(b) THEN Ord(Head(a)) < Ord(Head(b))
    ELSE StrLess(Tail(a), Tail(b))

EmptyDict == [k \in {} |-> <<>>]

\* an assignment that gives every key the new value
DictSet_every_key(d, k, v) == [x \in DOMAIN d \cup {k} |-> v]

\* d with d[k] = v, other keys kept
DictSet(d, k, v) == [x \in DOMAIN d \cup {k} |-> IF x = k THEN v ELSE d[x]]

\* d.get(k): None for a missing key
DictGet(d, k) == IF k \in DOMAIN d THEN d[k] ELSE None

(***************************************************************************)
(* Persistence (main.py:47-85).                                            *)
(***************************************************************************)
\* JSON values of a password entry: null, or a string
JNull == [null |-> TRUE, str |-> ""]

JStr(s) == [null |-> FALSE, str |-> s]

\* json.dump of an Optional[str]
ToJson(v) == IF v = None THEN JNull ELSE JStr(v[1])

\* json.load of a password entry
FromJson(j) == IF j.null THEN None ELSE Some(j.str)

\* note.model_dump(): the dict of the six fields
model_dump(note) ==
    [ id         |-> note.id,
      title      |-> note.title,
      content    |-> note.content,
      category   |-> note.category,
      created_at |-> note.created_at,
      updated_at |-> note.updated_at ]

\* Note(**d): the model built from a dict of the six fields
Note(d) ==
    [ id         |-> d.id,
      title      |-> d.title,
      content    |-> d.content,
      category   |-> d.category,
      created_at |-> d.created_at,
      updated_at |-> d.updated_at ]

Absent == [kind |-> "absent", notes |-> EmptyDict, passwords |-> EmptyDict]

\* a file json.load cannot decode: empty, or cut off in the middle
Malformed == [kind |-> "malformed", notes |-> EmptyDict, passwords |-> EmptyDict]

\* a document that leaves the passwords out
Snapshot_without_passwords(notes, passwords) ==
    [ kind      |-> "json",
      notes     |-> [u \in DOMAIN notes |->
                        [i \in 1..Len(notes[u]) |-> model_dump(notes[u][i])]],
      passwords |-> EmptyDict ]

\* the document save_data dumps (main.py:75-83)
Snapshot(notes, passwords) ==
    [ kind      |-> "json",
      notes     |-> [u \in DOMAIN notes |->
                        [i \in 1..Len(notes[u]) |-> model_dump(notes[u][i])]],
      passwords |-> [u \in DOMAIN passwords |->
                        [c \in DOMAIN passwords[u] |-> ToJson(passwords[u][c])]] ]

\* save_data(): what it leaves in the file, and whether its except branch ran.
\* The write succeeds; or open() raises and the file stays as it was; or the
\* dump raises after open() truncated the file, which is left cut off.
save_data(notes, passwords, f, failures) ==
    { [file |-> Snapshot(notes, passwords), failed |-> FALSE] }
    \cup
    ( IF failures < MaxWriteFailures
      THEN { [file |-> f, failed |-> TRUE], [file |-> Malformed, failed |-> TRUE] }
      ELSE {} )

\* load_data(): the two stores read from the file (main.py:47-68)
load_data(f) ==
    IF f.kind = "json"
    THEN [ notes     |-> [u \in DOMAIN f.notes |->
                             [i \in 1..Len(f.notes[u]) |-> Note(f.notes[u][i])]],
           passwords |-> [u \in DOMAIN f.passwords |->
                             [c \in DOMAIN f.passwords[u] |-> FromJson(f.passwords[u][c])]] ]
    ELSE [notes |-> EmptyDict, passwords |-> EmptyDict]

(***************************************************************************)
(* The record of the last request.                                         *)
(***************************************************************************)
NoReq ==
    [ user_id |-> <<>>, category |-> "", password |-> "", note_id |-> 0,
      title |-> "", content |-> "" ]

\* req is the request, kept when a route that changes the stores answers 200;
\* body is the list or the note returned;
\* save tells whether save_data() ran and how it ended
Response(op, status, detail, req, body, save) ==
    [ op |-> op, status |-> status, detail |-> detail, req |-> req,
      body |-> body, save |-> save ]

(***************************************************************************)
(* The initial state: load_data() at startup with no data file             *)
(* (main.py:66-68, 88-90).                                                 *)
(***************************************************************************)
\* the workers of the threadpool that runs the handlers
Threads == {1, 2}

\* a local name that is not bound to a list
NoList == [live |-> FALSE, val |-> <<>>]

\* a worker with no request
Idle ==
    [ op             |-> "idle",
      pc             |-> "idle",
      user_id        |-> <<>>,
      category       |-> "",
      password       |-> "",
      note_id        |-> 0,
      notes_list     |-> NoList,
      initial_length |-> 0,
      filtered       |-> <<>>,
      beside         |-> {} ]

Init ==
    /\ user_notes = load_data(Absent).notes
    /\ user_passwords = load_data(Absent).passwords
    /\ file = Absent
    /\ resp = Response("start", 200, "", NoReq, <<>>, "none")
    /\ issued = {}
    /\ setLog = {}
    /\ loginLog = {}
    /\ saves = 0
    /\ writeFailures = 0
    /\ threads = [t \in Threads |-> Idle]
    /\ returned = <<>>

\* a handler in which the exception of a failed write reaches the caller
Persist_raising(op, req, body) ==
    /\ saves < MaxSaves
    /\ saves' = saves + 1
    /\ \E w \in save_data(user_notes', user_passwords', file, writeFailures) :
           /\ file' = w.file
           /\ writeFailures' = writeFailures + (IF w.failed THEN 1 ELSE 0)
           /\ resp' = IF w.failed
                      THEN Response(op, 500, "Internal Server Error", NoReq, <<>>, "failed")
                      ELSE Response(op, 200, "", req, body, "ok")
    /\ UNCHANGED <<threads, returned>>

\* the step of a handler that ends in save_data(): the file after it, and the
\* response, which does not depend on how the write went
Persist(op, req, body) ==
    /\ saves < MaxSaves
    /\ saves' = saves + 1
    /\ \E w \in save_data(user_notes', user_passwords', file, writeFailures) :
           /\ file' = w.file
           /\ writeFailures' = writeFailures + (IF w.failed THEN 1 ELSE 0)
           /\ resp' = Response(op, 200, "", req, body,
                               IF w.failed THEN "failed" ELSE "ok")
    /\ UNCHANGED <<threads, returned>>

\* a handler that writes the data file before it raises or returns
Answer_saving(op, status, detail, req, body) ==
    /\ resp' = Response(op, status, detail, req, body, "none")
    /\ file' = Snapshot(user_notes, user_passwords)
    /\ UNCHANGED <<saves, writeFailures, threads, returned>>

\* the step of a handler that raises HTTPException, or returns without saving
Answer(op, status, detail, req, body) ==
    /\ resp' = Response(op, status, detail, req, body, "none")
    /\ UNCHANGED <<file, saves, writeFailures, threads, returned>>

(***************************************************************************)
(* What a handler answers: the status, and the detail of the HTTPException *)
(* it raises.                                                              *)
(***************************************************************************)
Ok == [status |-> 200, detail |-> ""]

HTTPException(status_code, detail) == [status |-> status_code, detail |-> detail]

(***************************************************************************)
(* POST /login (main.py:94-106).                                           *)
(***************************************************************************)
NewTable == [c \in TableCategories |-> None]

\* login without the membership test of main.py:100
is_new_user_always(user_id) == TRUE

\* main.py:100: the user has no note collection yet
is_new_user(user_id) == user_id \notin DOMAIN user_notes

login_answer(user) ==
    IF strip(user) = <<>> THEN HTTPException(400, "User ID is required") ELSE Ok

login(user) ==
    LET user_id == strip(user)
        req == [NoReq EXCEPT !.user_id = user]
        answer == login_answer(user)
    IN  IF answer # Ok
        THEN /\ Answer("login", answer.status, answer.detail, NoReq, <<>>)
             /\ UNCHANGED <<user_notes, user_passwords, issued, setLog, loginLog>>
        ELSE /\ loginLog' = loginLog \cup {user_id}
             /\ UNCHANGED <<issued, setLog>>
             /\ IF is_new_user(user_id)
                THEN /\ user_notes' = DictSet(user_notes, user_id, <<>>)
                     /\ user_passwords' = DictSet(user_passwords, user_id, NewTable)
                     /\ Persist("login", req, <<>>)
                ELSE /\ UNCHANGED <<user_notes, user_passwords>>
                     /\ Answer("login", 200, "", req, <<>>)

(***************************************************************************)
(* POST /password/{user_id} (main.py:108-124).                             *)
(***************************************************************************)
\* set_password without the check of main.py:116-117
set_password_answer_overwrites(user_id, category, password) ==
    IF user_id \notin DOMAIN user_passwords
    THEN HTTPException(404, "User not found")
    ELSE IF category \notin SettableCategories
    THEN HTTPException(400, "Password setting is only supported")
    ELSE IF password = ""
    THEN HTTPException(400, "Password cannot be empty.")
    ELSE Ok

\* set_password without the check of main.py:119-120
set_password_answer_accepts_empty(user_id, category, password) ==
    IF user_id \notin DOMAIN user_passwords
    THEN HTTPException(404, "User not found")
    ELSE IF category \notin SettableCategories
    THEN HTTPException(400, "Password setting is only supported")
    ELSE IF user_passwords[user_id][category] # None
    THEN HTTPException(400, "A password already exists")
    ELSE Ok

set_password_answer(user_id, category, password) ==
    IF user_id \notin DOMAIN user_passwords
    THEN HTTPException(404, "User not found")
    ELSE IF category \notin SettableCategories
    THEN HTTPException(400, "Password setting is only supported")
    ELSE IF user_passwords[user_id][category] # None
    THEN HTTPException(400, "A password already exists")
    ELSE IF password = ""
    THEN HTTPException(400, "Password cannot be empty.")
    ELSE Ok

set_password(user_id, category, password) ==
    LET req == [NoReq EXCEPT !.user_id = user_id, !.category = category,
                               !.password = password]
        answer == set_password_answer(user_id, category, password)
    IN  IF answer # Ok
        THEN /\ Answer("set_password", answer.status, answer.detail, NoReq, <<>>)
             /\ UNCHANGED <<user_notes, user_passwords, issued, setLog, loginLog>>
        ELSE /\ user_passwords' =
                    [user_passwords EXCEPT ![user_id][category] = Some(password)]
             /\ setLog' = setLog \cup {<<user_id, category, password>>}
             /\ UNCHANGED <<user_notes, issued, loginLog>>
             /\ Persist("set_password", req, <<>>)

(***************************************************************************)
(* POST /verify_password/{user_id} (main.py:126-139).                      *)
(***************************************************************************)
\* verify_password without the check of main.py:133-134
verify_password_answer_no_unset_check(user_id, category, password) ==
    IF user_id \notin DOMAIN user_passwords
    THEN HTTPException(404, "User not found")
    ELSE LET stored_pw == DictGet(user_passwords[user_id], category)
         IN  IF stored_pw # Some(password)
             THEN HTTPException(401, "Invalid password")
             ELSE Ok

verify_password_answer(user_id, category, password) ==
    IF user_id \notin DOMAIN user_passwords
    THEN HTTPException(404, "User not found")
    ELSE LET stored_pw == DictGet(user_passwords[user_id], category)
         IN  IF stored_pw = None
             THEN HTTPException(404, "No password set for category")
             ELSE IF stored_pw # Some(password)
             THEN HTTPException(401, "Invalid password")
             ELSE Ok

verify_password(user_id, category, password) ==
    LET answer == verify_password_answer(user_id, category, password)
    IN  /\ Answer("verify_password", answer.status, answer.detail, NoReq, <<>>)
        /\ UNCHANGED <<user_notes, user_passwords, issued, setLog, loginLog>>

(***************************************************************************)
(* GET /notes/{user_id} (main.py:141-146).                                 *)
(***************************************************************************)
\* an insertion that puts x before the elements whose key equals its own
InsertDesc_unstable(out, x) ==
    LET before == { i \in 1..Len(out) : ~StrLess(x.updated_at, out[i].updated_at) }
        at == IF before = {} THEN Len(out) + 1
              ELSE CHOOSE i \in before : \A j \in before : i <= j
    IN  SubSeq(out, 1, at - 1) \o <<x>> \o SubSeq(out, at, Len(out))

\* out, sorted by updated_at descending, with x put after every element whose
\* key is not smaller than its own
InsertDesc(out, x) ==
    LET before == { i \in 1..Len(out) : StrLess(out[i].updated_at, x.updated_at) }
        at == IF before = {} THEN Len(out) + 1
              ELSE CHOOSE i \in before : \A j \in before : i <= j
    IN  SubSeq(out, 1, at - 1) \o <<x>> \o SubSeq(out, at, Len(out))

\* sorted(notes, key=lambda n: n.updated_at, reverse=True): a stable sort, so
\* notes with equal keys keep the order they have in the list
RECURSIVE sorted_by_updated_at_desc(_)
sorted_by_updated_at_desc(notes) ==
    IF notes = <<>> THEN <<>>
    ELSE InsertDesc(sorted_by_updated_at_desc(SubSeq(notes, 1, Len(notes) - 1)),
                    notes[Len(notes)])

\* what get_notes(user_id) returns in the current state
get_notes_result(user_id) ==
    IF user_id \notin DOMAIN user_notes THEN <<>>
    ELSE sorted_by_updated_at_desc(user_notes[user_id])

get_notes(user_id) ==
    /\ Answer("get_notes", 200, "", NoReq, get_notes_result(user_id))
    /\ UNCHANGED <<user_notes, user_passwords, issued, setLog, loginLog>>

(***************************************************************************)
(* POST /notes/{user_id} (main.py:148-165).                                *)
(***************************************************************************)
\* a generator that can return an identifier it returned before
uuid4_repeating == NoteIds

\* uuid.uuid4(): an identifier it has not returned before. The handlers only
\* test identifiers for equality, so which one it is does not matter and the
\* least is taken.
uuid4 == { id \in NoteIds \ issued : \A other \in NoteIds \ issued : id <= other }

\* the note built with title and content exchanged
new_note_swapped(note, id, now) ==
    [ id         |-> id,
      title      |-> note.content,
      content    |-> note.title,
      category   |-> note.category,
      created_at |-> now,
      updated_at |-> now ]

\* the note built with a fixed updated_at instead of the clock's reading
new_note_fixed_update(note, id, now) ==
    [ id         |-> id,
      title      |-> note.title,
      content    |-> note.content,
      category   |-> note.category,
      created_at |-> now,
      updated_at |-> isoformat(<<0, 0>>) ]

\* Note(id=..., title=note.title, ..., created_at=now, updated_at=now)
new_note(note, id, now) ==
    [ id         |-> id,
      title      |-> note.title,
      content    |-> note.content,
      category   |-> note.category,
      created_at |-> now,
      updated_at |-> now ]

create_note_answer(user_id) ==
    IF user_id \notin DOMAIN user_notes
    THEN HTTPException(404, "User not found")
    ELSE Ok

create_note(user_id, note) ==
    LET req == [NoReq EXCEPT !.user_id = user_id, !.title = note.title,
                               !.content = note.content, !.category = note.category]
        answer == create_note_answer(user_id)
    IN  IF answer # Ok
        THEN /\ Answer("create_note", answer.status, answer.detail, NoReq, <<>>)
             /\ UNCHANGED <<user_notes, user_passwords, issued, setLog, loginLog>>
        ELSE \E t \in Clock, id \in uuid4 :
                LET created == new_note(note, id, isoformat(t))
                IN  /\ issued' = issued \cup {id}
                    /\ user_notes' =
                           [user_notes EXCEPT ![user_id] = Append(@, created)]
                    /\ UNCHANGED <<user_passwords, setLog, loginLog>>
                    /\ Persist("create_note", req, <<created>>)

(***************************************************************************)
(* DELETE /notes/{user_id}/{note_id} (main.py:167-181).                    *)
(***************************************************************************)
\* the filter with its test inverted
without_inverted(notes_list, note_id) ==
    SelectSeq(notes_list, LAMBDA n : n.id = note_id)

\* [n for n in notes_list if n.id != note_id]
without(notes_list, note_id) ==
    SelectSeq(notes_list, LAMBDA n : n.id # note_id)

delete_note_answer(user_id, note_id) ==
    IF user_id \notin DOMAIN user_notes
    THEN HTTPException(404, "User not found")
    ELSE IF Len(without(user_notes[user_id], note_id)) = Len(user_notes[user_id])
    THEN HTTPException(404, "Note not found")
    ELSE Ok

delete_note(user_id, note_id) ==
    LET req == [NoReq EXCEPT !.user_id = user_id, !.note_id = note_id]
        answer == delete_note_answer(user_id, note_id)
    IN  IF user_id \notin DOMAIN user_notes
        THEN /\ Answer("delete_note", answer.status, answer.detail, NoReq, <<>>)
             /\ UNCHANGED <<user_notes, user_passwords, issued, setLog, loginLog>>
        ELSE \* the filtered list is stored before the lengths are compared
             /\ user_notes' =
                    [user_notes EXCEPT ![user_id] = without(@, note_id)]
             /\ UNCHANGED <<user_passwords, issued, setLog, loginLog>>
             /\ IF answer # Ok
                THEN Answer("delete_note", answer.status, answer.detail, NoReq, <<>>)
                ELSE Persist("delete_note", req, <<>>)

(***************************************************************************)
(* The service: requests handled one at a time.                            *)
(***************************************************************************)
Login == \E user \in LoginIds : login(user)

SetPassword ==
    \E user_id \in PathIds, category \in Categories, password \in Passwords :
        set_password(user_id, category, password)

VerifyPassword ==
    \E user_id \in PathIds, category \in Categories, password \in Passwords :
        verify_password(user_id, category, password)

GetNotes == \E user_id \in PathIds : get_notes(user_id)

CreateNote == \E user_id \in PathIds, note \in NoteCreates : create_note(user_id, note)

DeleteNote == \E user_id \in PathIds, note_id \in NoteIds : delete_note(user_id, note_id)

Next ==
    \/ Login
    \/ SetPassword
    \/ VerifyPassword
    \/ GetNotes
    \/ CreateNote
    \/ DeleteNote

Spec == Init /\ [][Next]_vars

(***************************************************************************)
(* The service stopped and started again: the stores are lost and read     *)
(* back from the data file (main.py:87-90).                                *)
(***************************************************************************)
\* a startup in which a file that cannot be decoded ends the process
startup_fatal(f) ==
    IF f.kind = "malformed"
    THEN [status |-> 500, notes |-> EmptyDict, passwords |-> EmptyDict]
    ELSE [status |-> 200, notes |-> load_data(f).notes,
          passwords |-> load_data(f).passwords]

\* lines 88-90: the two stores start empty and load_data() fills them; the
\* JSONDecodeError of a file that cannot be decoded is caught (main.py:62-65),
\* so the module is imported and the service starts
startup(f) ==
    [status |-> 200, notes |-> load_data(f).notes, passwords |-> load_data(f).passwords]

Startup ==
    LET s == startup(file)
    IN  /\ user_notes' = s.notes
        /\ user_passwords' = s.passwords
        /\ resp' = Response("start", s.status, "", NoReq, <<>>, "none")
        /\ UNCHANGED <<file, issued, setLog, loginLog, saves, writeFailures,
                       threads, returned>>

NextBoot ==
    \/ Next
    \/ Startup

SpecBoot == Init /\ [][NextBoot]_vars

(***************************************************************************)
(* The handlers run by the threadpool.  The routes are plain def           *)
(* functions, which FastAPI runs in worker threads: the interpreter may     *)
(* switch workers between any two lines, and no handler takes a lock.  A   *)
(* step below is one line of a handler, or one of the two halves of        *)
(* main.py:175 (the list built by the comprehension, then the assignment   *)
(* of it).  A local that names a list names the list object: notes_list of *)
(* delete_note sees what other workers append until the store is given     *)
(* another list.  Every write of the file succeeds here.                   *)
(***************************************************************************)
ConcLoginIds == {UA}

ConcPathIds == {UA}

ConcCategories == {"Personal"}

ConcPasswords == {"p", "q"}

\* the body of the create_note requests
ConcCreate == [title |-> "t", content |-> "c", category |-> "Personal"]

\* the requests accepted so far
Started ==
    Len(returned) + Cardinality({ t \in Threads : threads[t].op # "idle" })

\* a worker is free and one more request is accepted
Accept(t) ==
    /\ threads[t].op = "idle"
    /\ Started < MaxRequests

\* the worker goes on to the line pc
Goto(t, pc) == [threads[t] EXCEPT !.pc = pc]

\* the handler of worker t, seen as w, returns or raises
Return(t, w, status) ==
    /\ threads' = [threads EXCEPT ![t] = Idle]
    /\ returned' = Append(returned,
           [ op |-> w.op, user_id |-> w.user_id, category |-> w.category,
             password |-> w.password, note_id |-> w.note_id,
             status |-> status, beside |-> w.beside ])

\* save_data() of a handler of the threadpool
ConcSave ==
    \E w \in save_data(user_notes, user_passwords, file, MaxWriteFailures) :
        file' = w.file

\* the list a local of worker t names
ListOf(t) ==
    IF threads[t].notes_list.live
    THEN user_notes[threads[t].user_id]
    ELSE threads[t].notes_list.val

\* the workers after worker t has given user_notes[user_id] another list: a
\* local of another worker that named the old list still names it
Rebound(t, user_id) ==
    [ o \in Threads |->
        IF o # t /\ threads[o].user_id = user_id /\ threads[o].notes_list.live
        THEN [threads[o] EXCEPT !.notes_list =
                  [live |-> FALSE, val |-> user_notes[user_id]]]
        ELSE threads[o] ]

\* a list.append() that appends to a copy of the list
list_append_to_copy(notes_list, created) == notes_list

\* list.append()
list_append(notes_list, created) == Append(notes_list, created)

\* main.py:96-100, and the return of line 106 for a known user
login_100(t) ==
    /\ Accept(t)
    /\ \E user \in ConcLoginIds :
           LET user_id == strip(user)
               w == [Idle EXCEPT !.op = "login", !.user_id = user_id]
               answer == login_answer(user)
           IN  IF answer # Ok
               THEN /\ Return(t, w, answer.status)
                    /\ UNCHANGED loginLog
               ELSE IF is_new_user(user_id)
               THEN /\ threads' = [threads EXCEPT ![t] = [w EXCEPT !.pc = "101"]]
                    /\ UNCHANGED <<returned, loginLog>>
               ELSE /\ Return(t, w, 200)
                    /\ loginLog' = loginLog \cup {user_id}
    /\ UNCHANGED <<user_notes, user_passwords, file, resp, issued, setLog, saves,
                   writeFailures>>

\* main.py:101
login_101(t) ==
    /\ threads[t].op = "login"
    /\ threads[t].pc = "101"
    /\ user_notes' = DictSet(user_notes, threads[t].user_id, <<>>)
    /\ threads' = [Rebound(t, threads[t].user_id) EXCEPT ![t] = Goto(t, "103")]
    /\ UNCHANGED <<user_passwords, file, resp, issued, setLog, loginLog, saves,
                   writeFailures, returned>>

\* main.py:103
login_103(t) ==
    /\ threads[t].op = "login"
    /\ threads[t].pc = "103"
    /\ user_passwords' = DictSet(user_passwords, threads[t].user_id, NewTable)
    /\ threads' = [threads EXCEPT ![t] = Goto(t, "104")]
    /\ UNCHANGED <<user_notes, file, resp, issued, setLog, loginLog, saves,
                   writeFailures, returned>>

\* main.py:104-106
login_104(t) ==
    /\ threads[t].op = "login"
    /\ threads[t].pc = "104"
    /\ ConcSave
    /\ Return(t, threads[t], 200)
    /\ loginLog' = loginLog \cup {threads[t].user_id}
    /\ UNCHANGED <<user_notes, user_passwords, resp, issued, setLog, saves,
                   writeFailures>>

\* main.py:110-120
set_password_110(t) ==
    /\ Accept(t)
    /\ \E user_id \in ConcPathIds, category \in ConcCategories,
          password \in ConcPasswords :
           LET w == [Idle EXCEPT !.op = "set_password", !.user_id = user_id,
                                 !.category = category, !.password = password]
               answer == set_password_answer(user_id, category, password)
           IN  IF answer # Ok
               THEN Return(t, w, answer.status)
               ELSE /\ threads' = [threads EXCEPT ![t] = [w EXCEPT !.pc = "122"]]
                    /\ UNCHANGED returned
    /\ UNCHANGED <<user_notes, user_passwords, file, resp, issued, setLog, loginLog,
                   saves, writeFailures>>

\* main.py:122
set_password_122(t) ==
    /\ threads[t].op = "set_password"
    /\ threads[t].pc = "122"
    /\ user_passwords' =
           [user_passwords EXCEPT ![threads[t].user_id][threads[t].category] =
                Some(threads[t].password)]
    /\ threads' = [threads EXCEPT ![t] = Goto(t, "123")]
    /\ UNCHANGED <<user_notes, file, resp, issued, setLog, loginLog, saves,
                   writeFailures, returned>>

\* main.py:123-124
set_password_123(t) ==
    /\ threads[t].op = "set_password"
    /\ threads[t].pc = "123"
    /\ ConcSave
    /\ Return(t, threads[t], 200)
    /\ setLog' = setLog \cup
           {<<threads[t].user_id, threads[t].category, threads[t].password>>}
    /\ UNCHANGED <<user_notes, user_passwords, resp, issued, loginLog, saves,
                   writeFailures>>

\* main.py:150-161: the check, and the note built from the request
create_note_150(t) ==
    /\ Accept(t)
    /\ \E user_id \in ConcPathIds :
           LET w == [Idle EXCEPT !.op = "create_note", !.user_id = user_id]
               answer == create_note_answer(user_id)
           IN  IF answer # Ok
               THEN /\ Return(t, w, answer.status)
                    /\ UNCHANGED issued
               ELSE \E id \in uuid4 :
                        /\ issued' = issued \cup {id}
                        /\ threads' = [threads EXCEPT ![t] =
                               [w EXCEPT !.pc = "163", !.note_id = id]]
                        /\ UNCHANGED returned
    /\ UNCHANGED <<user_notes, user_passwords, file, resp, setLog, loginLog, saves,
                   writeFailures>>

\* the handlers other workers are running for the user of worker t
Beside(t) ==
    { threads[o].op : o \in { x \in Threads \ {t} :
                                /\ threads[x].op # "idle"
                                /\ threads[x].user_id = threads[t].user_id } }

\* main.py:163
create_note_163(t) ==
    /\ threads[t].op = "create_note"
    /\ threads[t].pc = "163"
    /\ user_notes' =
           [user_notes EXCEPT ![threads[t].user_id] =
                list_append(@, new_note(ConcCreate, threads[t].note_id,
                                        isoformat(<<0, 0>>)))]
    /\ threads' = [threads EXCEPT ![t] =
           [threads[t] EXCEPT !.pc = "164", !.beside = Beside(t)]]
    /\ UNCHANGED <<user_passwords, file, resp, issued, setLog, loginLog, saves,
                   writeFailures, returned>>

\* main.py:164-165
create_note_164(t) ==
    /\ threads[t].op = "create_note"
    /\ threads[t].pc = "164"
    /\ ConcSave
    /\ Return(t, threads[t], 200)
    /\ UNCHANGED <<user_notes, user_passwords, resp, issued, setLog, loginLog,
                   saves, writeFailures>>

\* main.py:169-170
delete_note_169(t) ==
    /\ Accept(t)
    /\ \E user_id \in ConcPathIds, note_id \in NoteIds :
           LET w == [Idle EXCEPT !.op = "delete_note", !.user_id = user_id,
                                 !.note_id = note_id]
           IN  IF user_id \notin DOMAIN user_notes
               THEN Return(t, w, 404)
               ELSE /\ threads' = [threads EXCEPT ![t] = [w EXCEPT !.pc = "172"]]
                    /\ UNCHANGED returned
    /\ UNCHANGED <<user_notes, user_passwords, file, resp, issued, setLog, loginLog,
                   saves, writeFailures>>

\* main.py:172: notes_list names the list that is in the store
delete_note_172(t) ==
    /\ threads[t].op = "delete_note"
    /\ threads[t].pc = "172"
    /\ threads' = [threads EXCEPT ![t] =
           [threads[t] EXCEPT !.pc = "173",
                              !.notes_list = [live |-> TRUE, val |-> <<>>]]]
    /\ UNCHANGED <<user_notes, user_passwords, file, resp, issued, setLog, loginLog,
                   saves, writeFailures, returned>>

\* main.py:173
delete_note_173(t) ==
    /\ threads[t].op = "delete_note"
    /\ threads[t].pc = "173"
    /\ threads' = [threads EXCEPT ![t] =
           [threads[t] EXCEPT !.pc = "175", !.initial_length = Len(ListOf(t))]]
    /\ UNCHANGED <<user_notes, user_passwords, file, resp, issued, setLog, loginLog,
                   saves, writeFailures, returned>>

\* main.py:175, right-hand side: the list the comprehension builds
delete_note_175(t) ==
    /\ threads[t].op = "delete_note"
    /\ threads[t].pc = "175"
    /\ threads' = [threads EXCEPT ![t] =
           [threads[t] EXCEPT !.pc = "175 store", !.notes_list = NoList,
                              !.filtered = without(ListOf(t), threads[t].note_id)]]
    /\ UNCHANGED <<user_notes, user_passwords, file, resp, issued, setLog, loginLog,
                   saves, writeFailures, returned>>

\* main.py:175, the assignment: the store is given the list that was built
delete_note_175_store(t) ==
    /\ threads[t].op = "delete_note"
    /\ threads[t].pc = "175 store"
    /\ user_notes' = DictSet(user_notes, threads[t].user_id, threads[t].filtered)
    /\ threads' = [Rebound(t, threads[t].user_id) EXCEPT ![t] =
           [threads[t] EXCEPT !.pc = "177", !.filtered = <<>>]]
    /\ UNCHANGED <<user_passwords, file, resp, issued, setLog, loginLog, saves,
                   writeFailures, returned>>

\* main.py:177-178
delete_note_177(t) ==
    /\ threads[t].op = "delete_note"
    /\ threads[t].pc = "177"
    /\ IF Len(user_notes[threads[t].user_id]) = threads[t].initial_length
       THEN Return(t, threads[t], 404)
       ELSE /\ threads' = [threads EXCEPT ![t] = Goto(t, "180")]
            /\ UNCHANGED returned
    /\ UNCHANGED <<user_notes, user_passwords, file, resp, issued, setLog, loginLog,
                   saves, writeFailures>>

\* main.py:180-181
delete_note_180(t) ==
    /\ threads[t].op = "delete_note"
    /\ threads[t].pc = "180"
    /\ ConcSave
    /\ Return(t, threads[t], 200)
    /\ UNCHANGED <<user_notes, user_passwords, resp, issued, setLog, loginLog,
                   saves, writeFailures>>

LoginStep == \E t \in Threads : login_100(t) \/ login_101(t) \/ login_103(t) \/ login_104(t)

SetPasswordStep ==
    \E t \in Threads : set_password_110(t) \/ set_password_122(t) \/ set_password_123(t)

CreateNoteStep ==
    \E t \in Threads : create_note_150(t) \/ create_note_163(t) \/ create_note_164(t)

DeleteNoteStep ==
    \E t \in Threads :
        \/ delete_note_169(t)
        \/ delete_note_172(t)
        \/ delete_note_173(t)
        \/ delete_note_175(t)
        \/ delete_note_175_store(t)
        \/ delete_note_177(t)
        \/ delete_note_180(t)

NextConc ==
    \/ LoginStep
    \/ SetPasswordStep
    \/ CreateNoteStep
    \/ DeleteNoteStep

SpecConc == Init /\ [][NextConc]_vars

(***************************************************************************)
(* Properties.                                                             *)
(***************************************************************************)
\* the user ids and categories the properties range over
AnyUser == PathIds \cup LoginIds

AnyCategory == Categories \cup TableCategories

Known(u) == u \in DOMAIN user_notes

\* the passwords set_password was given when it answered 200 for (u, c)
SetFor(u, c) == { p \in Passwords : <<u, c, p>> \in setLog }

\* C1: once set_password(u, c, p) has answered 200 for a category c of Personal
\* and Diary, the stored password of (u, c) is p in every later state and
\* set_password(u, c, q) answers 400 for every q, q = p and q empty included.
C1_SetOnce ==
    \A u \in AnyUser, c \in SettableCategories, p \in Passwords :
        <<u, c, p>> \in setLog =>
            /\ u \in DOMAIN user_passwords
            /\ user_passwords[u][c] = Some(p)
            /\ \A q \in Passwords : set_password_answer(u, c, q).status = 400

\* a second set_password has been refused for a password that is stored
C1_Witness ==
    /\ setLog # {}
    /\ resp.op = "set_password"
    /\ resp.status = 400
    /\ resp.detail = "A password already exists"

\* C2: verify_password(u, c, p) answers 404 when u never logged in, 404 when no
\* set_password(u, c, .) has answered 200, 200 when p is the password of the
\* set_password that did, and 401 otherwise.
VerifyExpected(u, c, p) ==
    IF u \notin loginLog THEN 404
    ELSE IF SetFor(u, c) = {} THEN 404
    ELSE IF p \in SetFor(u, c) THEN 200
    ELSE 401

C2_VerifyByHistory ==
    \A u \in AnyUser, c \in AnyCategory, p \in Passwords :
        /\ verify_password_answer(u, c, p).status = VerifyExpected(u, c, p)
        /\ verify_password_answer(u, c, p).status = 401 => SetFor(u, c) # {}

\* a verify_password has answered 401
C2_Witness ==
    /\ resp.op = "verify_password"
    /\ resp.status = 401
    /\ setLog # {}

\* C3: set_password answers 404 for an unknown user, 400 for a category other
\* than Personal and Diary, 400 for an empty password; a set_password that fails
\* leaves the stores and the file as they were; one that answers 200 had a known
\* user, a settable category, an unset entry and a non-empty password, stores the
\* password in that entry and writes the snapshot.
C3_Answers ==
    \A u \in AnyUser, c \in AnyCategory, p \in Passwords :
        LET a == set_password_answer(u, c, p)
        IN  /\ u \notin DOMAIN user_passwords => a.status = 404
            /\ u \in DOMAIN user_passwords /\ c \notin SettableCategories => a.status = 400
            /\ u \in DOMAIN user_passwords /\ p = "" => a.status = 400
            /\ a.status = 200 <=>
                   /\ u \in DOMAIN user_passwords
                   /\ c \in SettableCategories
                   /\ user_passwords[u][c] = None
                   /\ p # ""

C3_Step ==
    resp'.op = "set_password" =>
        IF resp'.status # 200
        THEN /\ UNCHANGED <<user_notes, user_passwords, file, saves>>
             /\ resp'.save = "none"
        ELSE LET r == resp'.req
             IN  /\ r.user_id \in DOMAIN user_passwords
                 /\ r.category \in SettableCategories
                 /\ user_passwords[r.user_id][r.category] = None
                 /\ r.password # ""
                 /\ user_passwords' =
                        [user_passwords EXCEPT ![r.user_id][r.category] = Some(r.password)]
                 /\ UNCHANGED user_notes
                 /\ saves' = saves + 1
                 /\ resp'.save = "ok" => file' = Snapshot(user_notes', user_passwords')

C3_SetPasswordValidation == []C3_Answers /\ [][C3_Step]_vars

\* an empty password has been refused for a user who has a password set
C3_Witness ==
    /\ resp.op = "set_password"
    /\ resp.detail = "Password cannot be empty."
    /\ setLog # {}

\* C4: login of a user id that is in the store answers 200 and leaves the note
\* collections, the password tables and the data file as they were.
C4_Answers ==
    \A user \in LoginIds : Known(strip(user)) => login_answer(user).status = 200

C4_Step ==
    ( /\ resp'.op = "login"
      /\ resp'.status = 200
      /\ Known(strip(resp'.req.user_id)) )
    => /\ UNCHANGED <<user_notes, user_passwords, file, saves>>
       /\ resp'.save = "none"

C4_LoginIdempotent == []C4_Answers /\ [][C4_Step]_vars

\* a user with a note and a password has logged in again
C4_Witness ==
    /\ resp.op = "login"
    /\ resp.status = 200
    /\ resp.save = "none"
    /\ LET u == strip(resp.req.user_id)
       IN  /\ user_notes[u] # <<>>
           /\ \E c \in SettableCategories : user_passwords[u][c] # None

\* C5: create_note answers 404 for an unknown user and changes nothing; otherwise
\* it appends one note at the end of the user's collection, the earlier notes
\* keeping their values and order; the note has the title, content and category
\* given and created_at = updated_at; it is the record returned; and the snapshot
\* written holds it.
C5_Answers ==
    \A u \in AnyUser : ~Known(u) => create_note_answer(u).status = 404

C5_Step ==
    resp'.op = "create_note" =>
        IF resp'.status # 200
        THEN /\ resp'.status = 404
             /\ UNCHANGED <<user_notes, user_passwords, file, saves>>
             /\ resp'.save = "none"
        ELSE LET r == resp'.req
                 u == r.user_id
                 n == resp'.body[1]
             IN  /\ Known(u)
                 /\ Len(resp'.body) = 1
                 /\ DOMAIN user_notes' = DOMAIN user_notes
                 /\ \A v \in DOMAIN user_notes \ {u} : user_notes'[v] = user_notes[v]
                 /\ Len(user_notes'[u]) = Len(user_notes[u]) + 1
                 /\ \A i \in 1..Len(user_notes[u]) : user_notes'[u][i] = user_notes[u][i]
                 /\ user_notes'[u][Len(user_notes'[u])] = n
                 /\ n.title = r.title
                 /\ n.content = r.content
                 /\ n.category = r.category
                 /\ n.created_at = n.updated_at
                 /\ UNCHANGED user_passwords
                 /\ saves' = saves + 1
                 /\ resp'.save = "ok" => file' = Snapshot(user_notes', user_passwords')

C5_CreateNote == []C5_Answers /\ [][C5_Step]_vars

\* a note has been appended to a collection that held one already
C5_Witness ==
    /\ resp.op = "create_note"
    /\ resp.status = 200
    /\ Len(user_notes[resp.req.user_id]) = 2

\* the places <<user, index>> of the stored notes
Places == UNION { { <<u, i>> : i \in 1..Len(user_notes[u]) } : u \in DOMAIN user_notes }

StoredIds == { user_notes[pl[1]][pl[2]].id : pl \in Places }

\* C6: no two stored notes, of one user or of two, have the same identifier, and
\* the identifier of a new note is none that a note was ever created with, the
\* deleted ones included.
C6_Distinct ==
    /\ \A p1 \in Places, p2 \in Places :
           p1 # p2 => user_notes[p1[1]][p1[2]].id # user_notes[p2[1]][p2[2]].id
    /\ StoredIds \subseteq issued

C6_Step ==
    resp'.op = "create_note" /\ resp'.status = 200 =>
        /\ resp'.body[1].id \notin issued
        /\ resp'.body[1].id \notin StoredIds
        /\ issued' = issued \cup {resp'.body[1].id}

C6_UniqueIds == []C6_Distinct /\ [][C6_Step]_vars

\* a note has been created after another one was deleted
C6_Witness ==
    /\ resp.op = "create_note"
    /\ resp.status = 200
    /\ issued \ StoredIds # {}

\* the one-to-one maps of 1..n onto itself
Bijections(n) ==
    { f \in [1..n -> 1..n] : \A i \in 1..n, j \in 1..n : i # j => f[i] # f[j] }

\* out holds the notes of src, each once, by updated_at descending, and notes
\* with the same updated_at in the order they have in src
SortedView(out, src) ==
    /\ Len(out) = Len(src)
    /\ \E f \in Bijections(Len(src)) :
           /\ \A i \in 1..Len(out) : out[i] = src[f[i]]
           /\ \A i \in 1..Len(out), j \in 1..Len(out) :
                  i < j =>
                      /\ ~StrLess(out[i].updated_at, out[j].updated_at)
                      /\ out[i].updated_at = out[j].updated_at => f[i] < f[j]

\* C7: get_notes(u) for a known user returns the notes of u's collection, each
\* once and no other, by updated_at descending, notes with equal updated_at in
\* the order of insertion; for an unknown user it returns the empty list with
\* status 200.
C7_GetNotesOrder ==
    /\ \A u \in AnyUser :
           IF Known(u)
           THEN SortedView(get_notes_result(u), user_notes[u])
           ELSE get_notes_result(u) = <<>>
    /\ resp.op = "get_notes" =>
           /\ resp.status = 200
           /\ \E u \in PathIds : resp.body = get_notes_result(u)

\* get_notes has returned two notes with the same updated_at
C7_Witness ==
    /\ resp.op = "get_notes"
    /\ Len(resp.body) = 2
    /\ resp.body[1].updated_at = resp.body[2].updated_at

\* the indices of the notes of user u with identifier id
Holding(u, id) == { k \in 1..Len(user_notes[u]) : user_notes[u][k].id = id }

\* C8: delete_note answers 404 for an unknown user and 404 when the user has no
\* note with the identifier, and then changes neither stores nor file; otherwise
\* it removes that note, keeps the other notes of the user with their order,
\* writes the snapshot, and a second delete of the same note answers 404.
C8_Answers ==
    /\ \A u \in AnyUser, id \in NoteIds :
           LET a == delete_note_answer(u, id)
           IN  /\ ~Known(u) => a.status = 404
               /\ Known(u) /\ Holding(u, id) = {} => a.status = 404
               /\ Known(u) /\ Holding(u, id) # {} => a.status = 200
    /\ resp.op = "delete_note" /\ resp.status = 200 =>
           delete_note_answer(resp.req.user_id, resp.req.note_id).status = 404

C8_Step ==
    resp'.op = "delete_note" =>
        IF resp'.status # 200
        THEN /\ resp'.status = 404
             /\ UNCHANGED <<user_notes, user_passwords, file, saves>>
             /\ resp'.save = "none"
        ELSE LET u == resp'.req.user_id
                 id == resp'.req.note_id
             IN  /\ Known(u)
                 /\ \E k \in Holding(u, id) :
                        user_notes'[u] =
                            SubSeq(user_notes[u], 1, k - 1) \o
                            SubSeq(user_notes[u], k + 1, Len(user_notes[u]))
                 /\ DOMAIN user_notes' = DOMAIN user_notes
                 /\ \A v \in DOMAIN user_notes \ {u} : user_notes'[v] = user_notes[v]
                 /\ UNCHANGED user_passwords
                 /\ saves' = saves + 1
                 /\ resp'.save = "ok" => file' = Snapshot(user_notes', user_passwords')

C8_DeleteNote == []C8_Answers /\ [][C8_Step]_vars

\* a note has been deleted from a collection that keeps another one
C8_Witness ==
    /\ resp.op = "delete_note"
    /\ resp.status = 200
    /\ user_notes[resp.req.user_id] # <<>>

\* the stores as one record, as load_data returns them
Memory == [notes |-> user_notes, passwords |-> user_passwords]

\* C9: as long as no write of the data file has failed, load_data applied to the
\* file gives the two stores as they are in memory, and after the first write
\* the file is the snapshot of the current stores.
C9_RoundTrip ==
    writeFailures = 0 =>
        /\ load_data(file) = Memory
        /\ saves > 0 => file = Snapshot(user_notes, user_passwords)

\* the file holds a note and a password, all writes having succeeded
C9_Witness ==
    /\ writeFailures = 0
    /\ file.kind = "json"
    /\ setLog # {}
    /\ StoredIds # {}

\* C10: a request whose write of the data file fails is answered 200 like one
\* whose write succeeds, and its change of the stores stays in place; the stores
\* can then differ from what load_data reads from the file.
C10_Answered ==
    resp.save = "failed" =>
        /\ resp.status = 200
        /\ resp.op \in {"login", "set_password", "create_note", "delete_note"}

C10_Step ==
    resp'.save = "failed" =>
        LET r == resp'.req
            u == r.user_id
        IN  /\ writeFailures' = writeFailures + 1
            /\ stores' # stores
            /\ resp'.op = "login" =>
                   /\ ~Known(strip(u))
                   /\ strip(u) \in DOMAIN user_notes'
                   /\ strip(u) \in DOMAIN user_passwords'
            /\ resp'.op = "set_password" =>
                   user_passwords'[u][r.category] = Some(r.password)
            /\ resp'.op = "create_note" =>
                   user_notes'[u] = Append(user_notes[u], resp'.body[1])
            /\ resp'.op = "delete_note" =>
                   /\ Len(user_notes'[u]) < Len(user_notes[u])
                   /\ \A k \in 1..Len(user_notes'[u]) : user_notes'[u][k].id # r.note_id

C10_NoRollback == []C10_Answered /\ [][C10_Step]_vars

\* after a failed write the stores differ from what the file holds
C10_Witness ==
    /\ resp.save = "failed"
    /\ resp.status = 200
    /\ load_data(file) # Memory

\* C11: a startup that finds the data file absent, or with content that cannot
\* be decoded, ends with both stores empty and the service started; after any
\* startup the two stores have the same users.
C11_StartupUnreadable ==
    resp.op = "start" =>
        /\ resp.status = 200
        /\ file.kind \in {"absent", "malformed"} =>
               user_notes = EmptyDict /\ user_passwords = EmptyDict
        /\ DOMAIN user_notes = DOMAIN user_passwords

\* the service has started on a file a failed write left cut off, after a user
\* had logged in
C11_Witness ==
    /\ resp.op = "start"
    /\ file.kind = "malformed"
    /\ loginLog # {}
    /\ writeFailures > 0

UnreachableCategories == {"Office", "Study", "Schedule"}

\* C13: the entries Office, Study and Schedule of every user are unset in every
\* state; no set_password on them answers 200 and every verify_password on them
\* answers 404.
C13_Unreachable ==
    /\ \A u \in DOMAIN user_passwords, c \in UnreachableCategories :
           user_passwords[u][c] = None
    /\ \A u \in AnyUser, c \in UnreachableCategories, p \in Passwords :
           /\ set_password_answer(u, c, p).status # 200
           /\ verify_password_answer(u, c, p).status = 404

\* a set_password on a category that is not settable has been refused for a
\* user whose Personal and Diary passwords are both set
C13_Witness ==
    /\ resp.op = "set_password"
    /\ resp.detail = "Password setting is only supported"
    /\ \E u \in DOMAIN user_passwords :
           \A c \in {"Personal", "Diary"} : user_passwords[u][c] # None

\* C14: a note that is stored before and after a step has the same six values and
\* the same owner in both states, whatever the step; and updated_at is not
\* smaller than created_at for every stored note.
C14_Ordered ==
    \A pl \in Places :
        LET n == user_notes[pl[1]][pl[2]]
        IN  ~StrLess(n.updated_at, n.created_at)

C14_Step ==
    \A u \in DOMAIN user_notes, v \in DOMAIN user_notes' :
        \A i \in 1..Len(user_notes[u]), j \in 1..Len(user_notes'[v]) :
            user_notes[u][i].id = user_notes'[v][j].id =>
                /\ user_notes'[v][j] = user_notes[u][i]
                /\ u = v

C14_NoteImmutable == []C14_Ordered /\ [][C14_Step]_vars

\* a note created at the later reading of the clock is stored, and another
\* note has just been deleted
C14_Witness ==
    /\ resp.op = "delete_note"
    /\ resp.status = 200
    /\ \E pl \in Places : user_notes[pl[1]][pl[2]].created_at = isoformat(<<0, 1>>)

\* the user a request that was carried out is addressed to
Target(r) == IF r.op = "login" THEN strip(r.req.user_id) ELSE r.req.user_id

\* C15: a step leaves the collection and the password table of every user other
\* than the one it is addressed to as they were; delete_note(u, id) answers 404
\* when the note with identifier id is another user's; no identifier is stored
\* in two collections.
C15_Owned ==
    \A u \in DOMAIN user_notes, v \in DOMAIN user_notes :
        u # v =>
            /\ \A id \in NoteIds :
                   Holding(v, id) # {} =>
                       /\ Holding(u, id) = {}
                       /\ delete_note_answer(u, id) = HTTPException(404, "Note not found")

C15_Step ==
    \A v \in DOMAIN user_notes :
        v # Target(resp') =>
            /\ v \in DOMAIN user_notes'
            /\ v \in DOMAIN user_passwords'
            /\ user_notes'[v] = user_notes[v]
            /\ user_passwords'[v] = user_passwords[v]

C15_Isolation == []C15_Owned /\ [][C15_Step]_vars

\* a note has been created for one user while the other user has a note
C15_Witness ==
    /\ resp.op = "create_note"
    /\ resp.status = 200
    /\ \E v \in DOMAIN user_notes : v # resp.req.user_id /\ user_notes[v] # <<>>

\* s is empty or holds whitespace only
Blank(s) == \A i \in 1..Len(s) : s[i] \in Whitespace

\* s without the whitespace before its first and after its last other character
Trimmed(s) ==
    LET solid == { i \in 1..Len(s) : s[i] \notin Whitespace }
    IN  IF solid = {} THEN <<>>
        ELSE SubSeq(s, CHOOSE i \in solid : \A j \in solid : i <= j,
                       CHOOSE i \in solid : \A j \in solid : j <= i)

\* C16: login of an id that is empty or whitespace only answers 400, creates no
\* user and writes nothing; login of another id registers the id without its
\* leading and trailing whitespace, and no key of the stores is empty or begins
\* or ends with whitespace.
C16_Keys ==
    /\ \A u \in DOMAIN user_notes \cup DOMAIN user_passwords :
           /\ u # <<>> /\ u = Trimmed(u)
           /\ create_note_answer(u).status = 200
           /\ set_password_answer(u, "Personal", "").status # 404
    /\ \A user \in LoginIds :
           login_answer(user).status = IF Blank(user) THEN 400 ELSE 200

C16_Step ==
    resp'.op = "login" =>
        IF resp'.status # 200
        THEN /\ resp'.status = 400
             /\ UNCHANGED <<user_notes, user_passwords, file, saves>>
        ELSE LET key == Trimmed(resp'.req.user_id)
             IN  /\ ~Blank(resp'.req.user_id)
                 /\ DOMAIN user_notes' = DOMAIN user_notes \cup {key}
                 /\ DOMAIN user_passwords' = DOMAIN user_passwords \cup {key}

C16_LoginInput == []C16_Keys /\ [][C16_Step]_vars

\* a login with whitespace around the id has registered a user
C16_Witness ==
    /\ resp.op = "login"
    /\ resp.status = 200
    /\ resp.save = "ok"
    /\ resp.req.user_id = UPadded
    /\ UA \in DOMAIN user_notes
    /\ UPadded \notin DOMAIN user_notes

\* C20: the stores and the file change only in a step that answers 200 to a login
\* of an unknown user, a set_password, a create_note or a delete_note; a step
\* that answers 400, 401 or 404, a get_notes, a verify_password and a login of a
\* known user leave the three as they were.
C20_Step ==
    /\ (stores' # stores \/ file' # file) =>
           /\ resp'.status = 200
           /\ resp'.save # "none"
           /\ resp'.op \in {"login", "set_password", "create_note", "delete_note"}
           /\ resp'.op = "login" => ~Known(strip(resp'.req.user_id))
    /\ resp'.status \in {400, 401, 404} => UNCHANGED <<stores, file>>
    /\ resp'.op \in {"get_notes", "verify_password"} => UNCHANGED <<stores, file>>
    /\ (resp'.op = "login" /\ resp'.status = 200 /\ Known(strip(resp'.req.user_id)))
           => UNCHANGED <<stores, file>>

C20_OnlySuccessChanges == [][C20_Step]_vars

\* a verify_password has answered 401 with a note stored
C20_Witness ==
    /\ resp.op = "verify_password"
    /\ resp.status = 401
    /\ StoredIds # {}

(***************************************************************************)
(* The handlers run by the threadpool.                                     *)
(***************************************************************************)
\* no request is in progress
Quiet == \A t \in Threads : threads[t].op = "idle"

\* the answers given so far for the handler op with the status
Answered(op, status) ==
    { returned[i] : i \in { k \in 1..Len(returned) :
                              returned[k].op = op /\ returned[k].status = status } }

\* how many requests for the handler op were answered with the status
Count(op, status) ==
    Cardinality({ k \in 1..Len(returned) :
                    returned[k].op = op /\ returned[k].status = status })

\* the identifiers that delete_note requests have named
Named ==
    { returned[i].note_id : i \in { k \in 1..Len(returned) :
                                      returned[k].op = "delete_note" } }
    \cup { threads[t].note_id : t \in { x \in Threads : threads[x].op = "delete_note" } }

\* the identifiers of the notes in the data file
FileIds ==
    LET notes == load_data(file).notes
    IN  UNION { { notes[u][i].id : i \in 1..Len(notes[u]) } : u \in DOMAIN notes }

\* C12: in every state of the threadpool's run, the states between two lines of
\* a login included, the two stores have the same users, every password table
\* has exactly the five categories, and a user whose create_note would succeed
\* is not answered 'User not found' by set_password or verify_password.
C12_AtomicProvisioning ==
    /\ DOMAIN user_notes = DOMAIN user_passwords
    /\ \A u \in DOMAIN user_passwords : DOMAIN user_passwords[u] = TableCategories
    /\ \A u \in AnyUser :
           create_note_answer(u) = Ok =>
               \A c \in TableCategories, p \in Passwords :
                   /\ set_password_answer(u, c, p).detail # "User not found"
                   /\ verify_password_answer(u, c, p).detail # "User not found"

\* a create_note was answered 200 for a user whose login is between its two
\* writes, and the user has no password table
C12_Witness ==
    /\ \E t \in Threads : threads[t].op = "login" /\ threads[t].pc = "103"
    /\ \E r \in Answered("create_note", 200) :
           /\ r.user_id \in DOMAIN user_notes
           /\ r.user_id \notin DOMAIN user_passwords
           /\ set_password_answer(r.user_id, "Personal", "p")
                  = HTTPException(404, "User not found")

\* C17: a note whose create_note was answered 200, that is not in memory and
\* that no delete_note named, was appended while another worker was inside a
\* delete_note or a login of the same user; and a note leaves memory only in
\* the assignment of line 175 or of line 101.
C17_Explained ==
    \A r \in Answered("create_note", 200) :
        (r.note_id \notin StoredIds /\ r.note_id \notin Named) =>
            r.beside \cap {"delete_note", "login"} # {}

C17_Step ==
    \A id \in StoredIds \ StoredIds' :
        \E t \in Threads :
            /\ threads[t].pc \in {"175 store", "101"}
            /\ threads'[t].pc # threads[t].pc

C17_LostUpdate == []C17_Explained /\ [][C17_Step]_vars

\* both requests have been answered, create_note with 200; the created note is
\* neither in memory nor in the file, the delete_note beside it named another
\* identifier, and one login only has run
C17_Witness ==
    /\ Quiet
    /\ Count("login", 200) = 1
    /\ \E r \in Answered("create_note", 200) :
           /\ r.beside = {"delete_note"}
           /\ r.note_id \notin StoredIds
           /\ r.note_id \notin FileIds
           /\ r.note_id \notin Named

\* C18: two set_password requests of the threadpool for one user and category
\* with different passwords are never both past the checks of lines 110-120
\* (past them, each returns success), and no step replaces a password that is
\* set by another one.
C18_OneWinner ==
    \A t1 \in Threads, t2 \in Threads :
        ( /\ t1 # t2
          /\ threads[t1].op = "set_password"
          /\ threads[t2].op = "set_password"
          /\ threads[t1].user_id = threads[t2].user_id
          /\ threads[t1].category = threads[t2].category
          /\ threads[t1].password # threads[t2].password )
        => ~ ( threads[t1].pc \in {"122", "123"} /\ threads[t2].pc \in {"122", "123"} )

C18_Step ==
    \A u \in DOMAIN user_passwords \cap DOMAIN user_passwords' :
        \A c \in SettableCategories :
            (user_passwords[u][c] # None /\ user_passwords'[u][c] # None)
                => user_passwords'[u][c] = user_passwords[u][c]

C18_SetOnceConcurrent == []C18_OneWinner /\ [][C18_Step]_vars

\* two set_password requests for one user and category, with different
\* passwords, have both been answered 200, and one login only has run
C18_Witness ==
    /\ Quiet
    /\ Count("login", 200) = 1
    /\ \E r1 \in Answered("set_password", 200), r2 \in Answered("set_password", 200) :
           /\ r1.user_id = r2.user_id
           /\ r1.category = r2.category
           /\ r1.password # r2.password

\* C19: no step of a login replaces a collection that has notes by the empty one,
\* or a password that is set by None; and when no login is in progress, every
\* note whose create_note was answered 200, that no delete_note named or ran
\* beside, is in memory, and every entry a set_password was answered 200 for is
\* set.
C19_Kept ==
    (\A t \in Threads : threads[t].op # "login") =>
        /\ \A r \in Answered("create_note", 200) :
               (r.note_id \notin Named /\ "delete_note" \notin r.beside)
                   => r.note_id \in StoredIds
        /\ \A s \in setLog :
               /\ s[1] \in DOMAIN user_passwords
               /\ user_passwords[s[1]][s[2]] # None

C19_Step ==
    \A t \in Threads :
        (threads[t].op = "login" /\ threads'[t] # threads[t]) =>
            /\ \A u \in DOMAIN user_notes :
                   user_notes[u] # <<>> => user_notes'[u] # <<>>
            /\ \A u \in DOMAIN user_passwords, c \in TableCategories :
                   user_passwords[u][c] # None => user_passwords'[u][c] # None

C19_LoginKeepsData == []C19_Kept /\ [][C19_Step]_vars

\* two logins of one id have been answered 200 and no request is in progress; a
\* note whose create_note was answered 200 is gone, with no delete_note run
C19_Witness ==
    /\ Quiet
    /\ Count("login", 200) = 2
    /\ Named = {}
    /\ \E r \in Answered("create_note", 200) : r.note_id \notin StoredIds

====
